---- MODULE Spec2Model ----
(***************************************************************************)
(* A model of package logger (go-logz): the severity levels, NewLogger's   *)
(* defaults, the built-in and custom formatters, the output functions      *)
(* (console, file, writer, split, multi, level filter) and Logger.Log with *)
(* its named aliases, called by one or by several goroutines.              *)
(*                                                                         *)
(* A Go string is a sequence of atoms (a word, a punctuation character, a  *)
(* space, one byte), so that concatenation is \o, and escaping, parsing    *)
(* and "contains" are computed on the atoms.                               *)
(***************************************************************************)
EXTENDS Integers, Sequences, FiniteSets, TLC

VARIABLES
    options,   \* the LogOptions literal NewLogger was called with
    logger,    \* the Logger NewLogger returned
    calls,     \* the Log calls made so far, in the order they were entered
    frame,     \* per goroutine: the locals of its Log call in progress
    events,    \* every formatter and sink invocation, in the order they happened
    streams,   \* what each writer (stdout, stderr, a buffer) has received
    fs,        \* the log file of FileOutput on disk, and the files open on it
    fileOutputs,  \* what each call of FileOutput returned
    fileCalls     \* the calls made of the sinks FileOutput returned, in order

fileVars == <<fs, fileOutputs, fileCalls>>
vars == <<options, logger, calls, frame, events, streams, fs, fileOutputs, fileCalls>>

(***************************************************************************)
(* Bounds of the model.                                                    *)
(***************************************************************************)
MaxCalls == 2          \* Log calls per behaviour of Spec
MaxCallsOutputs == 2   \* Log calls per behaviour of SpecOutputs
MaxCallsFormat == 1    \* Log calls per behaviour of SpecCallback and SpecFormat
MaxCallsConc == 2      \* Log calls per behaviour of SpecConc
NumCallers == 2        \* goroutines calling one Logger in SpecConc
MaxFileOutputs == 2    \* calls of FileOutput per behaviour of SpecFile
MaxFileCalls == 2      \* calls of the file sinks per behaviour of SpecFile

Goroutines == 1..NumCallers

(***************************************************************************)
(* LogLevel and LogLevel.String                                            *)
(***************************************************************************)
Emergency == 0
Alert == 1
Critical == 2
Error == 3
Warning == 4
Notice == 5
Info == 6
Debug == 7

String(l) ==
    CASE l = Emergency -> "EMERGENCY"
      [] l = Alert -> "ALERT"
      [] l = Critical -> "CRITICAL"
      [] l = Error -> "ERROR"
      [] l = Warning -> "WARNING"
      [] l = Notice -> "NOTICE"
      [] l = Info -> "INFO"
      [] l = Debug -> "DEBUG"
      [] OTHER -> "UNKNOWN"

\* LogOutput: the two named formats; "" is the zero value.
StringOutput == <<"string">>
JSONOutput == <<"json">>

(***************************************************************************)
(* Go values: strings, maps (map[string]interface{}), io.Writers           *)
(***************************************************************************)
EmptyString == <<>>

\* A map value: nil, or a function from keys to values.
NilMap == [nil |-> TRUE, kv |-> <<>>]
MakeMap == [nil |-> FALSE, kv |-> <<>>]
MapOf(kv) == [nil |-> FALSE, kv |-> kv]
MapLen(m) == Cardinality(DOMAIN m.kv)

\* interface{} values stored in a map
StrVal(s) == [t |-> "string", v |-> s]
IntVal(lit) == [t |-> "int", v |-> <<lit>>]
ChanVal == [t |-> "chan", v |-> <<>>]

\* The byte 0xff, which is no valid UTF-8, and the rune U+FFFD.
InvalidByte == "\\xff"
RuneError == "U+FFFD"

\* An io.Writer whose Write panics (a nil io.Writer does).
PanicWriter == "panicWriter"
Writers == {"stdout", "stderr", "bufA", "bufB", "bufC"}

(***************************************************************************)
(* Output functions (OutputFunc values)                                    *)
(***************************************************************************)
defaultConsoleOutput == [kind |-> "defaultConsole"]
ConsoleOutput == [kind |-> "console"]
WriterOutput(writer) == [kind |-> "writer", writer |-> writer]
SplitOutput(errorWriter, infoWriter) ==
    [kind |-> "split", errorWriter |-> errorWriter, infoWriter |-> infoWriter]
MultiOutput(outputs) == [kind |-> "multi", outputs |-> outputs]
LevelFilterOutput(minLevel, output) ==
    [kind |-> "levelFilter", minLevel |-> minLevel, output |-> output]

\* The output functions an output function calls, in call order.
Wrapped(sink) ==
    CASE sink.kind = "multi" -> sink.outputs
      [] sink.kind = "levelFilter" -> <<sink.output>>
      [] OTHER -> <<>>

\* The output function at `path`: path[1] indexes the logger's outputs, each
\* further index the output functions wrapped at that depth.
RECURSIVE SinkAt(_, _)
SinkAt(outputs, path) ==
    IF Len(path) = 1 THEN outputs[path[1]]
    ELSE SinkAt(Wrapped(outputs[path[1]]), Tail(path))

\* fmt.Fprintln(w, message) and fmt.Fprint(w, message+"\n")
Fprintln(strm, w, message) ==
    [strm EXCEPT ![w] = Append(@, message \o <<"\n">>)]

(***************************************************************************)
(* LogOptions and NewLogger                                                *)
(***************************************************************************)
\* The LogOptions value of a composite literal: a field the literal leaves
\* out has its zero value.
LogOptions(lit) ==
    [Level |-> IF "Level" \in DOMAIN lit THEN lit.Level ELSE 0,
     Format |-> IF "Format" \in DOMAIN lit THEN lit.Format ELSE EmptyString,
     FormatCallback |->
        IF "FormatCallback" \in DOMAIN lit THEN lit.FormatCallback ELSE "nil",
     Outputs |-> IF "Outputs" \in DOMAIN lit THEN lit.Outputs ELSE <<>>,
     Prefix |-> IF "Prefix" \in DOMAIN lit THEN lit.Prefix ELSE EmptyString]

NewLoggerLevel(level) ==
    IF level < Emergency \/ level > Debug THEN Info ELSE level

NewLoggerFormat(format) ==
    IF format = EmptyString THEN StringOutput ELSE format

NewLoggerOutputs(outputs) ==
    IF Len(outputs) = 0 THEN <<defaultConsoleOutput>> ELSE outputs

NewLogger(opts) ==
    [level |-> NewLoggerLevel(opts.Level),
     format |-> NewLoggerFormat(opts.Format),
     formatCallback |-> opts.FormatCallback,
     outputs |-> NewLoggerOutputs(opts.Outputs),
     prefix |-> opts.Prefix]

(***************************************************************************)
(* encoding/json as formatMessage uses it: json.Marshal of a               *)
(* map[string]interface{}                                                  *)
(***************************************************************************)
\* Every map key of the model, in the byte order json.Marshal sorts keys by.
KeyOrder == <<"ch", "code", "k", "level", "message", "prefix", "timestamp">>

SortedKeys(m) == SelectSeq(KeyOrder, LAMBDA k : k \in DOMAIN m.kv)

\* A JSON string's escapes: the quote and the backslash are escaped, and an
\* invalid UTF-8 byte is replaced by the escape of U+FFFD.
EscapeAtom(a) ==
    CASE a = "\"" -> <<"\\", "\"">>
      [] a = "\\" -> <<"\\", "\\">>
      [] a = InvalidByte -> <<"\\ufffd">>
      [] OTHER -> <<a>>

\* A string quoted with nothing escaped
EscapeNothing(s) == s

RECURSIVE Escape(_)
Escape(s) ==
    IF s = <<>> THEN <<>> ELSE EscapeAtom(Head(s)) \o Escape(Tail(s))

Quote(s) == <<"\"">> \o Escape(s) \o <<"\"">>

\* [err, bytes]: a channel is an unsupported type, and Marshal then returns
\* no bytes.
MarshalValue(v) ==
    CASE v.t = "string" -> [err |-> FALSE, bytes |-> Quote(v.v)]
      [] v.t = "int" -> [err |-> FALSE, bytes |-> v.v]
      [] OTHER -> [err |-> TRUE, bytes |-> <<>>]

RECURSIVE MarshalMembers(_, _)
MarshalMembers(m, keys) ==
    IF keys = <<>> THEN <<>>
    ELSE Quote(<<Head(keys)>>) \o <<":">> \o MarshalValue(m.kv[Head(keys)]).bytes
         \o (IF Tail(keys) = <<>> THEN <<>> ELSE <<",">>)
         \o MarshalMembers(m, Tail(keys))

Marshal(m) ==
    IF m.nil THEN [err |-> FALSE, bytes |-> <<"null">>]
    ELSE IF \E k \in DOMAIN m.kv : MarshalValue(m.kv[k]).err
         THEN [err |-> TRUE, bytes |-> <<>>]
         ELSE [err |-> FALSE,
               bytes |-> <<"{">> \o MarshalMembers(m, SortedKeys(m)) \o <<"}">>]

(***************************************************************************)
(* FormatFunc values and Logger.formatMessage                              *)
(***************************************************************************)
\* The callback of TestCustomFormatCallback: "CUSTOM: " + message
testCallback(level, message, additionalInfo) ==
    <<"CUSTOM", ":", " ">> \o message

\* The callback of the basic example: "[CUSTOM] " + level.String() + ": " + message
\* after its leading emoji and space.
exampleCallback(level, message, additionalInfo) ==
    <<"U+1F680", " ", "[", "CUSTOM", "]", " ", String(level), ":", " ">> \o message

CallFormatFunc(callback, level, message, additionalInfo) ==
    IF callback = "testCallback"
    THEN testCallback(level, message, additionalInfo)
    ELSE exampleCallback(level, message, additionalInfo)

\* logData of the JSON branch: the fixed fields, then every key of
\* additionalInfo assigned over them.
LogData(l, timestamp, logLevel, message, additionalInfo) ==
    LET fixed == ("timestamp" :> StrVal(timestamp))
                 @@ ("level" :> StrVal(<<logLevel>>))
                 @@ ("message" :> StrVal(message))
        withPrefix == IF l.prefix # EmptyString
                      THEN ("prefix" :> StrVal(l.prefix)) @@ fixed
                      ELSE fixed
    IN  MapOf(additionalInfo.kv @@ withPrefix)

formatJSON(l, timestamp, logLevel, message, additionalInfo) ==
    Marshal(LogData(l, timestamp, logLevel, message, additionalInfo)).bytes

\* baseMessage of the string branch, before the additional info
BaseMessage(l, timestamp, logLevel) ==
    IF l.prefix # EmptyString
    THEN <<"[">> \o l.prefix \o <<"]", " ", "[">> \o timestamp
         \o <<"]", " ", "[", logLevel, "]">>
    ELSE <<"[">> \o timestamp \o <<"]", " ", "[", logLevel, "]">>

\* The string branch testing the map for nil instead of for its length
formatStringInfoIfNotNil(l, timestamp, logLevel, message, additionalInfo) ==
    LET baseMessage == BaseMessage(l, timestamp, logLevel)
        withInfo == IF ~additionalInfo.nil
                    THEN baseMessage \o <<" ">> \o Marshal(additionalInfo).bytes
                    ELSE baseMessage
    IN  withInfo \o <<" ">> \o message

formatString(l, timestamp, logLevel, message, additionalInfo) ==
    LET baseMessage == BaseMessage(l, timestamp, logLevel)
        withInfo == IF MapLen(additionalInfo) > 0
                    THEN baseMessage \o <<" ">> \o Marshal(additionalInfo).bytes
                    ELSE baseMessage
    IN  withInfo \o <<" ">> \o message

\* formatMessage testing the format before the callback
formatMessageFormatFirst(l, level, message, additionalInfo, timestamp) ==
    IF l.format = JSONOutput
    THEN [branch |-> "json",
          text |-> formatJSON(l, timestamp, String(level), message, additionalInfo)]
    ELSE IF l.formatCallback # "nil"
         THEN [branch |-> "formatCallback",
               text |-> CallFormatFunc(l.formatCallback, level, message,
                                       additionalInfo)]
         ELSE [branch |-> "string",
               text |-> formatString(l, timestamp, String(level), message,
                                     additionalInfo)]

\* [branch, text]: the branch taken and the string returned. timestamp is
\* time.Now().UTC().Format(time.RFC3339Nano), read by the built-in branches.
formatMessage(l, level, message, additionalInfo, timestamp) ==
    IF l.formatCallback # "nil"
    THEN [branch |-> "formatCallback",
          text |-> CallFormatFunc(l.formatCallback, level, message, additionalInfo)]
    ELSE IF l.format = JSONOutput
         THEN [branch |-> "json",
               text |-> formatJSON(l, timestamp, String(level), message,
                                   additionalInfo)]
         ELSE [branch |-> "string",
               text |-> formatString(l, timestamp, String(level), message,
                                     additionalInfo)]

\* shouldLog refusing a level outside Emergency..Debug
shouldLogValidated(l, level) ==
    level >= Emergency /\ level <= Debug /\ level <= l.level

\* shouldLog with the threshold itself left out
shouldLogBelowThreshold(l, level) == level < l.level

shouldLog(l, level) == level <= l.level

(***************************************************************************)
(* Output functions called: what one call of an output function does       *)
(***************************************************************************)
\* outputMessage ranging over the outputs from the last to the first
outputMessageReversed(l) ==
    [i \in 1..Len(l.outputs) |-> <<Len(l.outputs) + 1 - i>>]

\* outputMessage's loop: the logger's outputs, in list order.
outputMessage(l) == [i \in 1..Len(l.outputs) |-> <<i>>]

\* MultiOutput ranging over the wrapped outputs from the last to the first
MultiOutputCallsReversed(sink, path) ==
    [i \in 1..Len(sink.outputs) |-> path \o <<Len(sink.outputs) + 1 - i>>]

\* MultiOutput's loop: every wrapped output, in the order given.
MultiOutputCalls(sink, path) ==
    [i \in 1..Len(sink.outputs) |-> path \o <<i>>]

\* LevelFilterOutput with its comparison turned round
LevelFilterPassesAbove(minLevel, level) == level >= minLevel

\* LevelFilterOutput's check
LevelFilterPasses(minLevel, level) == level <= minLevel

\* ConsoleOutput, defaultConsoleOutput and SplitOutput choose their writer by
\* the level.
ErrorStream(level) == level <= Error

\* defaultConsoleOutput writing everything to os.Stdout.
defaultConsoleOutputAllStdout(level) == "stdout"

\* The stream defaultConsoleOutput writes to.
defaultConsoleOutputStream(level) ==
    IF level <= Error THEN "stderr" ELSE "stdout"

\* The writer an output function writes the message to, "none" for a
\* wrapper.
Target(sink, level) ==
    CASE sink.kind = "defaultConsole" -> defaultConsoleOutputStream(level)
      [] sink.kind = "console" ->
            IF ErrorStream(level) THEN "stderr" ELSE "stdout"
      [] sink.kind = "writer" -> sink.writer
      [] sink.kind = "split" ->
            IF ErrorStream(level) THEN sink.errorWriter ELSE sink.infoWriter
      [] OTHER -> "none"

\* The output functions a wrapper calls, as paths, in call order.
Calls(sink, path, level) ==
    CASE sink.kind = "multi" -> MultiOutputCalls(sink, path)
      [] sink.kind = "levelFilter" ->
            IF LevelFilterPasses(sink.minLevel, level)
            THEN <<path \o <<1>>>> ELSE <<>>
      [] OTHER -> <<>>

\* The loops going on after a panic, as if each call were recovered
UnwindRecovered(todo) == todo

\* A panic in an output function is recovered nowhere in the package: it
\* unwinds MultiOutput's and outputMessage's loops, and what they had left to
\* call is never called.
Unwind(todo) == <<>>

(***************************************************************************)
(* The state machine                                                       *)
(***************************************************************************)
IdleFrame ==
    [pc |-> "idle", call |-> 0, info |-> NilMap,
     formattedMessage |-> EmptyString, todo |-> <<>>]

\* Logger.Log up to its call of formatMessage: the level check and the choice
\* of info. `via` is the method the caller used.
LogEnter(g, via, level, message, additionalInfo, maxCalls) ==
    /\ frame[g].pc = "idle"
    /\ Len(calls) < maxCalls
    /\ LET call == [goroutine |-> g, via |-> via, level |-> level,
                    message |-> message, additionalInfo |-> additionalInfo]
       IN  IF shouldLog(logger, level)
           THEN /\ calls' = Append(calls, call @@ [status |-> "running"])
                /\ frame' = [frame EXCEPT ![g] =
                       [pc |-> "format", call |-> Len(calls) + 1,
                        info |-> IF Len(additionalInfo) > 0
                                 THEN additionalInfo[1] ELSE MakeMap,
                        formattedMessage |-> EmptyString, todo |-> <<>>]]
           ELSE /\ calls' = Append(calls, call @@ [status |-> "returned"])
                /\ UNCHANGED frame
    /\ UNCHANGED <<options, logger, events, streams, fileVars>>

Logger_Log(g, level, message, additionalInfo, maxCalls) ==
    LogEnter(g, "Log", level, message, additionalInfo, maxCalls)

Logger_Emergency(g, message, additionalInfo, maxCalls) ==
    LogEnter(g, "Emergency", Emergency, message, additionalInfo, maxCalls)

Logger_Alert(g, message, additionalInfo, maxCalls) ==
    LogEnter(g, "Alert", Alert, message, additionalInfo, maxCalls)

Logger_Critical(g, message, additionalInfo, maxCalls) ==
    LogEnter(g, "Critical", Critical, message, additionalInfo, maxCalls)

Logger_Error(g, message, additionalInfo, maxCalls) ==
    LogEnter(g, "Error", Error, message, additionalInfo, maxCalls)

Logger_Warning(g, message, additionalInfo, maxCalls) ==
    LogEnter(g, "Warning", Warning, message, additionalInfo, maxCalls)

Logger_Notice(g, message, additionalInfo, maxCalls) ==
    LogEnter(g, "Notice", Notice, message, additionalInfo, maxCalls)

Logger_Info(g, message, additionalInfo, maxCalls) ==
    LogEnter(g, "Info", Info, message, additionalInfo, maxCalls)

Logger_Debug(g, message, additionalInfo, maxCalls) ==
    LogEnter(g, "Debug", Debug, message, additionalInfo, maxCalls)

\* Logger.Log's call of formatMessage, and outputMessage entered.
Format(g, timestamp) ==
    /\ frame[g].pc = "format"
    /\ LET k == frame[g].call
           r == formatMessage(logger, calls[k].level, calls[k].message,
                              frame[g].info, timestamp)
           todo == outputMessage(logger)
       IN  /\ events' = Append(events,
                  [call |-> k, ev |-> r.branch, path |-> <<>>,
                   level |-> calls[k].level, message |-> r.text,
                   info |-> frame[g].info, timestamp |-> timestamp])
           /\ frame' = [frame EXCEPT ![g].pc = "output",
                                     ![g].formattedMessage = r.text,
                                     ![g].todo = todo]
    /\ UNCHANGED <<options, logger, calls, streams, fileVars>>

\* formattedMessage kept in one place for all the calls in progress
SharedMessage(g) ==
    frame[CHOOSE h \in Goroutines :
             frame[h].pc = "output"
             /\ \A h2 \in Goroutines : frame[h2].pc = "output" => h <= h2]
        .formattedMessage

\* formattedMessage is a local of Log: each call hands its own to
\* outputMessage.
LocalMessage(g) == frame[g].formattedMessage

\* The next output function of the call is called: it writes, or calls the
\* output functions it wraps, or panics; after the last one Log returns.
Output(g) ==
    /\ frame[g].pc = "output"
    /\ frame[g].todo # <<>>
    /\ LET k == frame[g].call
           level == calls[k].level
           message == LocalMessage(g)
           path == Head(frame[g].todo)
           sink == SinkAt(logger.outputs, path)
           w == Target(sink, level)
           panics == w = PanicWriter
           todo == IF panics THEN Unwind(Tail(frame[g].todo))
                   ELSE Calls(sink, path, level) \o Tail(frame[g].todo)
       IN  /\ events' = Append(events,
                  [call |-> k, ev |-> "output", path |-> path,
                   level |-> level, message |-> message, info |-> NilMap,
                   timestamp |-> EmptyString])
           /\ streams' = IF w \in Writers THEN Fprintln(streams, w, message)
                         ELSE streams
           /\ IF todo = <<>>
              THEN /\ frame' = [frame EXCEPT ![g] = IdleFrame]
                   /\ calls' = [calls EXCEPT ![k].status =
                                   IF panics THEN "panicked" ELSE "returned"]
              ELSE /\ frame' = [frame EXCEPT ![g].todo = todo]
                   /\ UNCHANGED calls
    /\ UNCHANGED <<options, logger, fileVars>>

(***************************************************************************)
(* FileOutput: os.OpenFile, and the sink writing to the open file          *)
(***************************************************************************)
\* The log file's place on disk: whether opening there is refused (no such
\* directory, no permission), whether the file exists, its bytes, the bytes
\* it had before the program ran, and the files the program has open on it.
NoFile ==
    [denied |-> FALSE, exists |-> FALSE, data |-> <<>>, previous |-> <<>>,
     open |-> <<>>]

\* os.O_CREATE|os.O_WRONLY without os.O_APPEND
OpenFlagsNoAppend == [create |-> TRUE, append |-> FALSE, trunc |-> FALSE]

\* os.O_CREATE|os.O_WRONLY|os.O_APPEND
OpenFlags == [create |-> TRUE, append |-> TRUE, trunc |-> FALSE]

\* A nil error and a nil OutputFunc.
NilError == <<>>
NilFunc == [kind |-> "nil"]

\* os.OpenFile(filename, flag, 0666): the error, or no error and the file
\* system with the file created if it was missing, kept as it is if it was
\* there, and one more open file on it, at offset 0.
OpenFile(disk, flag) ==
    IF disk.denied THEN [err |-> <<"permission denied">>, fs |-> disk, file |-> 0]
    ELSE IF ~disk.exists /\ ~flag.create
    THEN [err |-> <<"no such file or directory">>, fs |-> disk, file |-> 0]
    ELSE [err |-> NilError,
          fs |-> [disk EXCEPT
                    !.exists = TRUE,
                    !.data = IF flag.trunc \/ ~disk.exists THEN <<>> ELSE @,
                    !.open = Append(@, [append |-> flag.append, offset |-> 0])],
          file |-> Len(disk.open) + 1]

\* file.Write(bytes): at the end of the file when it was opened with
\* O_APPEND, at the file's offset otherwise, over what is there.
Write(disk, file, bytes) ==
    LET at == IF disk.open[file].append THEN Len(disk.data)
              ELSE disk.open[file].offset
        end == at + Len(bytes)
    IN  [disk EXCEPT
            !.data = SubSeq(@, 1, at) \o bytes \o SubSeq(@, end + 1, Len(@)),
            !.open[file].offset = end]

\* fmt.Errorf("failed to open log file %s: %w", filename, err)
Errorf(filename, err) ==
    <<"failed to open log file ", filename, ": ">> \o err

\* FileOutput(filename): opens the file and returns the sink bound to it, or
\* returns the error.
FileOutput(filename) ==
    /\ Len(fileOutputs) < MaxFileOutputs
    /\ LET r == OpenFile(fs, OpenFlags)
       IN  IF r.err # NilError
           THEN /\ fileOutputs' = Append(fileOutputs,
                       [sink |-> NilFunc, err |-> Errorf(filename, r.err)])
                /\ UNCHANGED fs
           ELSE /\ fileOutputs' = Append(fileOutputs,
                       [sink |-> [kind |-> "file", file |-> r.file],
                        err |-> NilError])
                /\ fs' = r.fs
    /\ UNCHANGED <<options, logger, calls, frame, events, streams, fileCalls>>

\* A call of the sink the i-th FileOutput returned: fmt.Fprintln(file,
\* message).
FileSink(i, level, message) ==
    /\ i \in DOMAIN fileOutputs
    /\ fileOutputs[i].sink # NilFunc
    /\ Len(fileCalls) < MaxFileCalls
    /\ fs' = Write(fs, fileOutputs[i].sink.file, message \o <<"\n">>)
    /\ fileCalls' = Append(fileCalls,
                           [sink |-> i, level |-> level, message |-> message])
    /\ UNCHANGED <<options, logger, calls, frame, events, streams, fileOutputs>>

(***************************************************************************)
(* The loggers constructed and the calls made                              *)
(***************************************************************************)
A == WriterOutput("bufA")
B == WriterOutput("bufB")
C == WriterOutput("bufC")
P == WriterOutput(PanicWriter)

\* The parts of a LogOptions literal: a field left out, or given one of vs.
Unset == {<<>>}
Field(name, vs) == {name :> v : v \in vs}

Literals(levels, formats, callbacks, outputs, prefixes) ==
    {l @@ f @@ c @@ o @@ p :
        l \in levels, f \in formats, c \in callbacks, o \in outputs,
        p \in prefixes}

InitWith(lits) ==
    /\ options \in lits
    /\ logger = NewLogger(LogOptions(options))
    /\ calls = <<>>
    /\ frame = [g \in Goroutines |-> IdleFrame]
    /\ events = <<>>
    /\ streams = [w \in Writers |-> <<>>]
    /\ fs = NoFile
    /\ fileOutputs = <<>>
    /\ fileCalls = <<>>

\* The calls of Logger.Log, those of the eight named methods, and the steps
\* of the calls in progress.
LogCalls(gs, levels, messages, infos, maxCalls) ==
    \E g \in gs, level \in levels, message \in messages, additionalInfo \in infos :
        Logger_Log(g, level, message, additionalInfo, maxCalls)

NamedCalls(gs, messages, infos, maxCalls) ==
    \E g \in gs, message \in messages, additionalInfo \in infos :
        \/ Logger_Emergency(g, message, additionalInfo, maxCalls)
        \/ Logger_Alert(g, message, additionalInfo, maxCalls)
        \/ Logger_Critical(g, message, additionalInfo, maxCalls)
        \/ Logger_Error(g, message, additionalInfo, maxCalls)
        \/ Logger_Warning(g, message, additionalInfo, maxCalls)
        \/ Logger_Notice(g, message, additionalInfo, maxCalls)
        \/ Logger_Info(g, message, additionalInfo, maxCalls)
        \/ Logger_Debug(g, message, additionalInfo, maxCalls)

Steps(gs, timestamps) ==
    \E g \in gs :
        \/ \E timestamp \in timestamps : Format(g, timestamp)
        \/ Output(g)

\* Levels as LogOptions.Level and as Log's argument: Emergency..Debug and one
\* value out of range at each end.
AnyLevel == (Emergency - 1)..(Debug + 1)

Time1 == <<"2025-01-01T00:00:00.000000001Z">>
Time2 == <<"2025-01-01T00:00:00.000000002Z">>

Quoted == <<"say", " ", "\"", "hi", "\"">>
NotUTF8 == <<"bad", InvalidByte>>
Code500 == MapOf("code" :> IntVal("500"))

\* Spec: one goroutine; every threshold, set or left out, and every level,
\* through Log and through the named methods.
Init ==
    InitWith(Literals(Unset \cup Field("Level", AnyLevel), Unset, Unset,
                      Unset \cup Field("Outputs", {<<>>, <<ConsoleOutput>>, <<A, B>>}),
                      Unset))

Next ==
    \/ LogCalls({1}, AnyLevel, {<<"x">>}, {<<>>}, MaxCalls)
    \/ NamedCalls({1}, {<<"x">>}, {<<>>}, MaxCalls)
    \/ Steps({1}, {Time1})

Spec == Init /\ [][Next]_vars

\* SpecOutputs: one goroutine; every shape of the outputs, with a built-in
\* and a custom formatter.
Example6 == <<LevelFilterOutput(Error, A), LevelFilterOutput(Info, B)>>

OutputLists ==
    {<<A>>,
     <<A, B, C>>,
     Example6,
     <<MultiOutput(<<A, B>>), C>>,
     <<MultiOutput(<<ConsoleOutput, A, LevelFilterOutput(Error, B)>>)>>,
     <<SplitOutput("bufA", "bufB"), MultiOutput(<<>>)>>,
     <<A, P, B>>,
     <<MultiOutput(<<A, P, B>>), C>>}

InitOutputs ==
    InitWith(Literals(Field("Level", {Error, Debug}), Unset,
                      Unset \cup Field("FormatCallback", {"testCallback"}),
                      Unset \cup Field("Outputs", OutputLists), Unset))

NextOutputs ==
    \/ LogCalls({1}, {Error, Info, Debug}, {<<"x">>}, {<<>>, <<Code500>>},
                MaxCallsOutputs)
    \/ Steps({1}, {Time1})

SpecOutputs == InitOutputs /\ [][NextOutputs]_vars

\* SpecCallback: one goroutine; a custom formatter with every format and
\* prefix.
InitCallback ==
    InitWith(Literals(Field("Level", {Info}),
                      Unset \cup Field("Format", {StringOutput, JSONOutput, <<"xml">>}),
                      Field("FormatCallback", {"testCallback", "exampleCallback"}),
                      Field("Outputs", {<<A>>}),
                      Unset \cup Field("Prefix", {<<"svc">>})))

NextCallback ==
    \/ LogCalls({1}, {Error, Info, Debug}, {<<"y">>, Quoted},
                {<<>>, <<NilMap>>, <<MakeMap>>, <<Code500>>}, MaxCallsFormat)
    \/ Steps({1}, {Time1, Time2})

SpecCallback == InitCallback /\ [][NextCallback]_vars

\* SpecFormat: one goroutine; the built-in formats with and without a
\* prefix, messages and additional info of every shape.
Messages == {<<"x">>, <<"y">>, Quoted, NotUTF8}

Infos ==
    {<<>>, <<NilMap>>, <<MakeMap>>, <<Code500>>,
     <<MapOf(("k" :> StrVal(<<"v">>)) @@ ("code" :> IntVal("500")))>>,
     <<MapOf("message" :> StrVal(<<"other">>))>>,
     <<MapOf("level" :> IntVal("500"))>>,
     <<MapOf("ch" :> ChanVal)>>,
     <<MapOf("k" :> StrVal(Quoted)), Code500>>}

InitFormat ==
    InitWith(Literals(Field("Level", {Error, Debug}),
                      Unset \cup Field("Format", {StringOutput, JSONOutput, <<"xml">>}),
                      Unset,
                      Field("Outputs", {<<A>>}),
                      Unset \cup Field("Prefix", {<<"svc">>})))

NextFormat ==
    \/ LogCalls({1}, {Error, Debug}, Messages, Infos, MaxCallsFormat)
    \/ Steps({1}, {Time1, Time2})

SpecFormat == InitFormat /\ [][NextFormat]_vars

\* SpecConc: several goroutines call one Logger; their steps interleave.
InitConc ==
    InitWith(Literals(Field("Level", {Info}), Unset, Unset,
                      Field("Outputs",
                            {<<A, B>>,
                             <<LevelFilterOutput(Error, A)>>,
                             <<A, P, B>>}),
                      Unset))

\* The goroutine that makes the next call. Goroutines that are not inside Log
\* are interchangeable, so the call is made by the first of them.
NextCaller ==
    {g \in Goroutines :
        /\ frame[g].pc = "idle"
        /\ \A h \in 1..(g - 1) : frame[h].pc # "idle"}

NextConc ==
    \/ LogCalls(NextCaller, {Error, Info, Debug}, {<<"x">>}, {<<>>}, MaxCallsConc)
    \/ Steps(Goroutines, {Time1})

SpecConc == InitConc /\ [][NextConc]_vars

\* SpecFile: FileOutput called on a path where the file is missing, empty or
\* holds a line already, and where opening is or is not refused; the sinks
\* it returns called directly.
OldLine == <<"old", "\n">>

InitFile ==
    /\ options = <<>>
    /\ logger = NewLogger(LogOptions(options))
    /\ calls = <<>>
    /\ frame = [g \in Goroutines |-> IdleFrame]
    /\ events = <<>>
    /\ streams = [w \in Writers |-> <<>>]
    /\ \E denied \in BOOLEAN, previous \in {<<>>, OldLine} :
          \E exists \in (IF previous = <<>> THEN BOOLEAN ELSE {TRUE}) :
              fs = [denied |-> denied, exists |-> exists, data |-> previous,
                    previous |-> previous, open |-> <<>>]
    /\ fileOutputs = <<>>
    /\ fileCalls = <<>>

NextFile ==
    \/ FileOutput("./app.log")
    \/ \E i \in 1..MaxFileOutputs, level \in {Error, Info},
          message \in {<<"x">>, <<"y">>} :
            FileSink(i, level, message)

SpecFile == InitFile /\ [][NextFile]_vars

(***************************************************************************)
(* What the claims speak of                                                *)
(***************************************************************************)
InRange(level) == level \in Emergency..Debug

CallEvents(k) == SelectSeq(events, LAMBDA e : e.call = k)
OutputEvents(k) == SelectSeq(events, LAMBDA e : e.call = k /\ e.ev = "output")
FormatEvents(k) == SelectSeq(events, LAMBDA e : e.call = k /\ e.ev # "output")

\* The calls of the output function at `path` made for call k.
EventsAt(k, path) == SelectSeq(OutputEvents(k), LAMBDA e : e.path = path)

\* The calls, for call k, of the output functions listed directly under
\* `path` (<<>>: the logger's own list), and the paths called, in order.
Under(k, path) ==
    SelectSeq(OutputEvents(k),
              LAMBDA e : Len(e.path) = Len(path) + 1
                         /\ SubSeq(e.path, 1, Len(path)) = path)
PathsUnder(k, path) ==
    [i \in 1..Len(Under(k, path)) |-> Under(k, path)[i].path]
FirstPaths(path, m) == [i \in 1..m |-> path \o <<i>>]

Done(k) == calls[k].status # "running"

\* Whether a call of `sink` at `level` panics, from the output functions'
\* definitions alone.
RECURSIVE PanicsAt(_, _)
PanicsAt(sink, level) ==
    CASE sink.kind = "writer" -> sink.writer = PanicWriter
      [] sink.kind = "split" ->
            (IF level <= Error THEN sink.errorWriter ELSE sink.infoWriter)
                = PanicWriter
      [] sink.kind = "levelFilter" ->
            level <= sink.minLevel /\ PanicsAt(sink.output, level)
      [] sink.kind = "multi" ->
            \E i \in 1..Len(sink.outputs) : PanicsAt(sink.outputs[i], level)
      [] OTHER -> FALSE

\* How many of `sinks` a loop over them calls at `level`: all, or those up to
\* and including the first that panics.
CalledOf(sinks, level) ==
    LET bad == {i \in 1..Len(sinks) : PanicsAt(sinks[i], level)}
    IN  IF bad = {} THEN Len(sinks)
        ELSE CHOOSE i \in bad : \A j \in bad : i <= j

\* C1: a call at a level L of Emergency..Debug reaches the logger's outputs
\* iff L <= the threshold; a call with L above the threshold invokes nothing
\* (no formatter, no output function, no write) and returns.
C1_EmittedIffLevelAtMostThreshold ==
    /\ InRange(logger.level)
    /\ \A k \in DOMAIN calls :
          InRange(calls[k].level) =>
             IF calls[k].level <= logger.level
             THEN Done(k) => OutputEvents(k) # <<>>
             ELSE CallEvents(k) = <<>> /\ calls[k].status = "returned"
    /\ (\A k \in DOMAIN calls : calls[k].level > logger.level) =>
          \A w \in Writers : streams[w] = <<>>

C1_Witness ==
    \E k1, k2 \in DOMAIN calls :
        /\ InRange(calls[k1].level) /\ calls[k1].level > logger.level
        /\ calls[k1].via # "Log"
        /\ InRange(calls[k2].level) /\ calls[k2].level = logger.level
        /\ calls[k2].status = "returned" /\ OutputEvents(k2) # <<>>

\* C2 (as claimed): the threshold is Info when LogOptions.Level is left unset
\* or is outside Emergency..Debug, and is options.Level otherwise.
C2_UnsetOrInvalidLevelGivesInfo ==
    IF "Level" \notin DOMAIN options \/ ~InRange(options.Level)
    THEN logger.level = Info
    ELSE logger.level = options.Level

\* The events of call k are: one formatter call, then output function calls,
\* each with the string the formatter returned and the level of the call; the
\* logger's own outputs are called in list order, each once, and `m` of them
\* once the call has ended.
Dispatched(k, m) ==
    LET evs == CallEvents(k)
        top == PathsUnder(k, <<>>)
    IN  /\ Len(FormatEvents(k)) = 1
        /\ evs[1].ev # "output"
        /\ \A i \in 2..Len(evs) :
              /\ evs[i].message = evs[1].message
              /\ evs[i].level = calls[k].level
        /\ top = FirstPaths(<<>>, Len(top))
        /\ Done(k) => Len(top) = m

\* C3 (as claimed): a call that passes the level check calls the formatter
\* once and then every output of the logger once, in list order, with the
\* formatted string and the level of the call; a call that fails the check
\* calls no formatter.
C3_EveryOutputCalledOnce ==
    \A k \in DOMAIN calls :
        IF calls[k].level <= logger.level
        THEN CallEvents(k) # <<>> => Dispatched(k, Len(logger.outputs))
        ELSE CallEvents(k) = <<>>

\* C3 (amended): as C3, with the outputs called in list order up to and
\* including the first that panics, and every output when none panics.
C3_OutputsCalledInOrderUntilPanic ==
    \A k \in DOMAIN calls :
        IF calls[k].level <= logger.level
        THEN /\ Done(k) => CallEvents(k) # <<>>
             /\ CallEvents(k) # <<>> =>
                   Dispatched(k, CalledOf(logger.outputs, calls[k].level))
        ELSE CallEvents(k) = <<>>

C3_Witness ==
    \E k \in DOMAIN calls :
        /\ calls[k].status = "returned"
        /\ Len(logger.outputs) >= 2
        /\ PathsUnder(k, <<>>) = FirstPaths(<<>>, Len(logger.outputs))
        /\ \E j \in DOMAIN calls : calls[j].level > logger.level

KindAt(path) == SinkAt(logger.outputs, path).kind

\* What the output function at `path` has been called with, over all calls.
ObservedAt(path) ==
    LET sel == SelectSeq(events, LAMBDA e : e.ev = "output" /\ e.path = path)
    IN  [i \in 1..Len(sel) |-> <<sel[i].call, sel[i].level, sel[i].message>>]

\* For the call e of a MultiOutput: the wrapped outputs are called in the
\* order given, each once and with e's level and message, and `m` of them
\* once the Log call has ended.
MultiCalled(e, m) ==
    LET under == Under(e.call, e.path)
    IN  /\ PathsUnder(e.call, e.path) = FirstPaths(e.path, Len(under))
        /\ \A i \in 1..Len(under) :
              under[i].level = e.level /\ under[i].message = e.message
        /\ Done(e.call) => Len(under) = m

MultiEvents ==
    {e \in {events[i] : i \in 1..Len(events)} :
        e.ev = "output" /\ KindAt(e.path) = "multi"}

\* C5 (as claimed): every call of a MultiOutput calls each wrapped output
\* once, in registration order, with the unchanged level and message; so all
\* the wrapped outputs observe the same sequence of messages.
C5_MultiCallsEveryOutputOnce ==
    \A e \in MultiEvents :
        LET n == Len(SinkAt(logger.outputs, e.path).outputs)
        IN  /\ MultiCalled(e, n)
            /\ (\A k \in DOMAIN calls : Done(k)) =>
                  \A i, j \in 1..n :
                      ObservedAt(e.path \o <<i>>) = ObservedAt(e.path \o <<j>>)

\* C5 (amended): every call of a MultiOutput calls the wrapped outputs in
\* registration order, each once, with the unchanged level and message, up
\* to and including the first that panics; when no call panics in it, all
\* the wrapped outputs observe the same sequence of messages.
C5_MultiCallsOutputsInOrderUntilPanic ==
    \A e \in MultiEvents :
        LET multi == SinkAt(logger.outputs, e.path)
            n == Len(multi.outputs)
        IN  /\ MultiCalled(e, CalledOf(multi.outputs, e.level))
            /\ (\A k \in DOMAIN calls :
                    Done(k) /\ ~PanicsAt(multi, calls[k].level)) =>
                  \A i, j \in 1..n :
                      ObservedAt(e.path \o <<i>>) = ObservedAt(e.path \o <<j>>)

C5_Witness ==
    /\ Len(calls) = 2
    /\ \A k \in DOMAIN calls : calls[k].status = "returned"
    /\ calls[1].level # calls[2].level
    /\ KindAt(<<1>>) = "multi"
    /\ Len(ObservedAt(<<1, 1>>)) = 2
    /\ ObservedAt(<<1, 2>>) = ObservedAt(<<1, 1>>)
    /\ streams["bufB"] = streams["bufA"] /\ Len(streams["bufA"]) = 2

FilterEvents ==
    {e \in {events[i] : i \in 1..Len(events)} :
        e.ev = "output" /\ KindAt(e.path) = "levelFilter"}

\* C6: the output wrapped by LevelFilterOutput(T, s) is called only by a call
\* of the filter with level <= T, and by every such call, once, with the
\* unchanged level and message (it is called, or the next to be called);
\* with outputs [LevelFilterOutput(Error, A), LevelFilterOutput(Info, B)]
\* under threshold Debug a Debug message reaches neither A nor B, an Info
\* message reaches B and not A, an Error message reaches A.
C6_FilterPassesIffLevelAtMostMin ==
    /\ \A e \in FilterEvents :
          LET inner == e.path \o <<1>>
              called == EventsAt(e.call, inner)
              f == frame[calls[e.call].goroutine]
          IN  /\ Len(called) <= 1
              /\ \A i \in 1..Len(called) :
                    called[i].level = e.level /\ called[i].message = e.message
              /\ IF e.level <= SinkAt(logger.outputs, e.path).minLevel
                 THEN \/ Len(called) = 1
                      \/ f.call = e.call /\ f.todo # <<>> /\ Head(f.todo) = inner
                 ELSE called = <<>>
    /\ (logger.outputs = Example6 /\ logger.level = Debug) =>
          /\ \A k \in DOMAIN calls :
                Done(k) =>
                   /\ calls[k].level = Debug =>
                         EventsAt(k, <<1, 1>>) = <<>> /\ EventsAt(k, <<2, 1>>) = <<>>
                   /\ calls[k].level = Info =>
                         EventsAt(k, <<1, 1>>) = <<>> /\ Len(EventsAt(k, <<2, 1>>)) = 1
                   /\ calls[k].level = Error => Len(EventsAt(k, <<1, 1>>)) = 1
          /\ (\A k \in DOMAIN calls : calls[k].level > Info) =>
                streams["bufA"] = <<>> /\ streams["bufB"] = <<>>
          /\ (\A k \in DOMAIN calls : calls[k].level > Error) =>
                streams["bufA"] = <<>>

C6_Witness ==
    /\ logger.outputs = Example6 /\ logger.level = Debug
    /\ Len(calls) = 2
    /\ calls[1].level = Info /\ calls[2].level = Debug
    /\ \A k \in DOMAIN calls : calls[k].status = "returned"
    /\ Len(streams["bufB"]) = 1 /\ streams["bufA"] = <<>>

\* The call of an output function that panics itself.
Raises(e) == Target(SinkAt(logger.outputs, e.path), e.level) = PanicWriter

\* C10: when an output function panics for a message, Log ends by that panic
\* (and by nothing else), the panicking call is the last event of the Log
\* call; in the logger's list and in every MultiOutput the panic passes
\* through, at position i, the outputs before i have been called, i has, and
\* none after i is; the writers listed before it have received the message.
C10_PanicPropagatesAndSkipsTheRest ==
    \A k \in DOMAIN calls :
        LET evs == OutputEvents(k)
            raised == \E i \in 1..Len(evs) : Raises(evs[i])
        IN  /\ calls[k].status = "panicked" <=> raised
            /\ raised =>
                  LET last == evs[Len(evs)]
                  IN  /\ Raises(last)
                      /\ CallEvents(k)[Len(CallEvents(k))] = last
                      /\ frame[calls[k].goroutine].call # k
                      /\ \A d \in 1..Len(last.path) :
                            LET list == SubSeq(last.path, 1, d - 1)
                                i == last.path[d]
                            IN  (list = <<>> \/ KindAt(list) = "multi") =>
                                   /\ PathsUnder(k, list) = FirstPaths(list, i)
                                   /\ \A j \in 1..(i - 1) :
                                         LET s == SinkAt(logger.outputs, list \o <<j>>)
                                         IN  s.kind = "writer" =>
                                                \E n \in 1..Len(streams[s.writer]) :
                                                    streams[s.writer][n]
                                                        = last.message \o <<"\n">>

C10_Witness ==
    \E k \in DOMAIN calls :
        /\ calls[k].status = "panicked"
        /\ Len(logger.outputs) = 2
        /\ EventsAt(k, <<1, 1>>) # <<>> /\ EventsAt(k, <<1, 2>>) # <<>>
        /\ EventsAt(k, <<1, 3>>) = <<>> /\ EventsAt(k, <<2>>) = <<>>
        /\ streams["bufA"] # <<>> /\ streams["bufB"] = <<>> /\ streams["bufC"] = <<>>

(***************************************************************************)
(* Reading a string back as JSON (RFC 8259: an object of string and number *)
(* members), to decide what a formatted string says                        *)
(***************************************************************************)
NumberAtoms == {"500"}
NoParse == [ok |-> FALSE, val |-> <<>>, next |-> 0]

\* The string whose opening quote precedes s[i]: [ok, val, next], next the
\* index after the closing quote.
RECURSIVE ReadString(_, _, _)
ReadString(s, i, acc) ==
    IF i > Len(s) THEN NoParse
    ELSE IF s[i] = "\"" THEN [ok |-> TRUE, val |-> acc, next |-> i + 1]
    ELSE IF s[i] = "\\"
         THEN IF i + 1 <= Len(s) /\ s[i + 1] \in {"\"", "\\"}
              THEN ReadString(s, i + 2, Append(acc, s[i + 1]))
              ELSE NoParse
    ELSE IF s[i] = "\\ufffd" THEN ReadString(s, i + 1, Append(acc, RuneError))
    ELSE IF s[i] \in {InvalidByte, "\n"} THEN NoParse
    ELSE ReadString(s, i + 1, Append(acc, s[i]))

ReadValue(s, i) ==
    IF i > Len(s) THEN NoParse
    ELSE IF s[i] = "\""
         THEN LET r == ReadString(s, i + 1, <<>>)
              IN  [r EXCEPT !.val = StrVal(r.val)]
    ELSE IF s[i] \in NumberAtoms
         THEN [ok |-> TRUE, val |-> IntVal(s[i]), next |-> i + 1]
    ELSE NoParse

\* The members from s[i] on, up to the closing brace that ends s.
RECURSIVE ReadMembers(_, _, _)
ReadMembers(s, i, obj) ==
    IF i > Len(s) \/ s[i] # "\"" THEN [ok |-> FALSE, obj |-> <<>>]
    ELSE LET key == ReadString(s, i + 1, <<>>)
         IN  IF ~key.ok \/ key.next > Len(s) \/ s[key.next] # ":"
             THEN [ok |-> FALSE, obj |-> <<>>]
             ELSE LET v == ReadValue(s, key.next + 1)
                      sofar == (key.val :> v.val) @@ obj
                  IN  IF ~v.ok \/ v.next > Len(s) THEN [ok |-> FALSE, obj |-> <<>>]
                      ELSE IF s[v.next] = "}"
                           THEN [ok |-> v.next = Len(s), obj |-> sofar]
                      ELSE IF s[v.next] = ","
                           THEN ReadMembers(s, v.next + 1, sofar)
                      ELSE [ok |-> FALSE, obj |-> <<>>]

\* [ok, obj]: whether s is a JSON object, and its members by name.
ParseObject(s) ==
    IF Len(s) < 2 \/ s[1] # "{" THEN [ok |-> FALSE, obj |-> <<>>]
    ELSE IF s[2] = "}" THEN [ok |-> Len(s) = 2, obj |-> <<>>]
    ELSE ReadMembers(s, 2, <<>>)

HasMember(s, name, val) ==
    LET r == ParseObject(s)
    IN  r.ok /\ <<name>> \in DOMAIN r.obj /\ r.obj[<<name>>] = val

\* The name of a level of Emergency..Debug, upper case.
LevelNames ==
    <<"EMERGENCY", "ALERT", "CRITICAL", "ERROR", "WARNING", "NOTICE", "INFO",
      "DEBUG">>
NameOf(level) == LevelNames[level + 1]

OutputEventsAll == {e \in {events[i] : i \in 1..Len(events)} : e.ev = "output"}
FormatEventOf(e) == FormatEvents(e.call)[1]

\* The info Log hands to formatMessage for a call.
InfoOf(k) ==
    IF calls[k].additionalInfo = <<>> THEN [nil |-> FALSE, kv |-> <<>>]
    ELSE calls[k].additionalInfo[1]

Contains(s, sub) ==
    \E i \in 0..(Len(s) - Len(sub)) : SubSeq(s, i + 1, i + Len(sub)) = sub

RECURSIVE JoinWithSpaces(_)
JoinWithSpaces(segments) ==
    IF Len(segments) = 1 THEN segments[1]
    ELSE segments[1] \o <<" ">> \o JoinWithSpaces(Tail(segments))

\* C4: with a FormatCallback, whatever Format and Prefix are, every string
\* handed to an output is what the callback returns for the level, message
\* and info of the call; the formatter called is the callback, once, never a
\* built-in branch; and the callback receives the caller's first map, or an
\* empty non-nil map when the caller passed none.
C4_CallbackReplacesBuiltInFormats ==
    logger.formatCallback # "nil" =>
       /\ \A i \in 1..Len(events) : events[i].ev \in {"formatCallback", "output"}
       /\ \A e \in OutputEventsAll :
             LET k == e.call
                 f == FormatEventOf(e)
             IN  /\ Len(FormatEvents(k)) = 1
                 /\ e.message =
                       IF logger.formatCallback = "testCallback"
                       THEN <<"CUSTOM", ":", " ">> \o calls[k].message
                       ELSE <<"U+1F680", " ", "[", "CUSTOM", "]", " ",
                              NameOf(calls[k].level), ":", " ">> \o calls[k].message
                 /\ f.message = e.message
                 /\ f.info = InfoOf(k)
                 /\ calls[k].additionalInfo = <<>> =>
                       ~f.info.nil /\ DOMAIN f.info.kv = {}

C4_Witness ==
    \E e \in OutputEventsAll :
        /\ logger.formatCallback = "testCallback"
        /\ logger.format = JSONOutput /\ logger.prefix = <<"svc">>
        /\ calls[e.call].additionalInfo = <<>>
        /\ e.message = <<"CUSTOM", ":", " ", "y">>
        /\ streams["bufA"] = << <<"CUSTOM", ":", " ", "y", "\n">> >>

JSONMode == logger.formatCallback = "nil" /\ logger.format = JSONOutput
TextMode == logger.formatCallback = "nil" /\ logger.format # JSONOutput

ValidUTF8(s) == \A i \in 1..Len(s) : s[i] # InvalidByte
Serialisable(info) == \A key \in DOMAIN info.kv : info.kv[key].t \in {"string", "int"}

C8_TextLineIsSpaceJoinedSegments ==
    TextMode =>
       /\ \A e \in OutputEventsAll :
             LET k == e.call
                 info == InfoOf(k)
                 name == NameOf(calls[k].level)
                 segments ==
                    (IF logger.prefix # <<>>
                     THEN << <<"[">> \o logger.prefix \o <<"]">> >> ELSE <<>>)
                    \o << <<"[">> \o FormatEventOf(e).timestamp \o <<"]">>,
                          <<"[", name, "]">> >>
                    \o (IF DOMAIN info.kv # {} THEN <<Marshal(info).bytes>> ELSE <<>>)
                    \o <<calls[k].message>>
             IN  /\ e.message = JoinWithSpaces(segments)
                 /\ Contains(e.message, <<"[", name, "]">>)
                 /\ Contains(e.message, calls[k].message)
       /\ (logger.level = Error /\ logger.prefix = <<"svc">>) =>
             /\ \A k \in DOMAIN calls :
                   /\ calls[k].level = Debug => CallEvents(k) = <<>>
                   /\ (calls[k].level = Error /\ calls[k].message = <<"y">>
                         /\ calls[k].additionalInfo = <<Code500>>) =>
                         \A i \in 1..Len(OutputEvents(k)) :
                             OutputEvents(k)[i].message =
                                <<"[", "svc", "]", " ", "[">>
                                \o FormatEvents(k)[1].timestamp
                                \o <<"]", " ", "[", "ERROR", "]", " ", "{", "\"",
                                     "code", "\"", ":", "500", "}", " ", "y">>
             /\ (\A k \in DOMAIN calls : calls[k].level = Debug) =>
                   \A w \in Writers : streams[w] = <<>>

C8_Witness ==
    /\ TextMode /\ logger.level = Error /\ logger.prefix = <<"svc">>
    /\ Len(calls) = 1 /\ calls[1].status = "returned"
    /\ calls[1].level = Error /\ calls[1].message = <<"y">>
    /\ calls[1].additionalInfo = <<Code500>>
    /\ streams["bufA"] =
          << <<"[", "svc", "]", " ", "[">> \o Time2
             \o <<"]", " ", "[", "ERROR", "]", " ", "{", "\"", "code", "\"", ":",
                  "500", "}", " ", "y", "\n">> >>

\* What writer w has received is what the output functions writing to w were
\* called with, in the order of the calls, each with its newline.
WrittenTo(w) ==
    LET sel == SelectSeq(events,
                   LAMBDA e : e.ev = "output"
                              /\ Target(SinkAt(logger.outputs, e.path), e.level) = w)
    IN  [i \in 1..Len(sel) |-> sel[i].message \o <<"\n">>]

\* Every call that passed the level check has its own events in order (one
\* formatter call, then the logger's outputs in list order, `m(k)` of them at
\* its end, each with the call's own string and level), no output function is
\* called twice for one call, and the writers hold exactly what was handed
\* to them.
DeliveredOnce(m(_)) ==
    /\ \A k \in DOMAIN calls :
          IF calls[k].level <= logger.level
          THEN /\ Done(k) => CallEvents(k) # <<>>
               /\ CallEvents(k) # <<>> => Dispatched(k, m(k))
               /\ \A i, j \in 1..Len(OutputEvents(k)) :
                     OutputEvents(k)[i].path = OutputEvents(k)[j].path => i = j
          ELSE CallEvents(k) = <<>>
    /\ \A w \in Writers : streams[w] = WrittenTo(w)

AllOutputs(k) == Len(logger.outputs)
OutputsUntilPanic(k) == CalledOf(logger.outputs, calls[k].level)

\* C9 (as claimed): under any interleaving of the calls of several
\* goroutines the logger stays as NewLogger built it, and every call that
\* passes the level check hands its own formatted string, with its own level,
\* to every output of the logger once, in list order.
C9_ConcurrentCallsReachEveryOutput ==
    /\ logger = NewLogger(LogOptions(options))
    /\ DeliveredOnce(AllOutputs)

\* C9 (amended): as C9, with the outputs called in list order up to and
\* including the first that panics, and every output when none panics; and
\* no step changes the logger.
C9_ConcurrentCallsKeepTheirOwnMessage ==
    /\ [](logger = NewLogger(LogOptions(options)) /\ DeliveredOnce(OutputsUntilPanic))
    /\ [][logger' = logger]_vars

C9_Witness ==
    /\ Len(calls) = 2
    /\ calls[1].goroutine # calls[2].goroutine
    /\ calls[1].level # calls[2].level
    /\ \A k \in DOMAIN calls : calls[k].status = "returned"
    /\ logger.outputs = <<A, B>>
    /\ Len(streams["bufA"]) = 2
    /\ streams["bufB"] = <<streams["bufA"][2], streams["bufA"][1]>>

\* The calls whose additional info json.Marshal cannot serialise, made on a
\* logger that formats with a built-in format and emitted by it.
FailedToSerialise ==
    {k \in DOMAIN calls :
        /\ logger.formatCallback = "nil"
        /\ calls[k].level <= logger.level
        /\ MapLen(InfoOf(k)) > 0
        /\ ~Serialisable(InfoOf(k))}

\* C11 (as claimed): when json.Marshal fails on the additional info, in text
\* and in JSON mode alike, the call returns normally, every output of the
\* logger is called exactly once for it, and the string handed to the
\* outputs still contains the message.
C11_SerialisationFailureKeepsTheMessage ==
    \A k \in FailedToSerialise :
        /\ calls[k].status # "panicked"
        /\ Done(k) =>
              /\ calls[k].status = "returned"
              /\ PathsUnder(k, <<>>) = FirstPaths(<<>>, Len(logger.outputs))
              /\ \A i \in 1..Len(OutputEvents(k)) :
                    Contains(OutputEvents(k)[i].message, calls[k].message)

\* The calls of the console output functions so far, in order, and the
\* lines they are to have written for the levels selected by `errors`.
ConsoleCalls ==
    SelectSeq(events,
              LAMBDA e : e.ev = "output"
                         /\ KindAt(e.path) \in {"console", "defaultConsole"})

ConsoleLines(errors) ==
    LET sel == SelectSeq(ConsoleCalls, LAMBDA e : (e.level <= Error) = errors)
    IN  [i \in 1..Len(sel) |-> sel[i].message \o <<"\n">>]

\* C12: every call of a console output function writes the message and one
\* newline to one stream, standard error iff level <= Error and standard
\* output otherwise; and a logger built from LogOptions whose Outputs are
\* left out or empty has one output function, which writes every level to
\* the stream ConsoleOutput() writes it to.
C12_ConsoleRoutesByLevelAndIsTheDefault ==
    /\ streams["stderr"] = ConsoleLines(TRUE)
    /\ streams["stdout"] = ConsoleLines(FALSE)
    /\ ("Outputs" \notin DOMAIN options \/ LogOptions(options).Outputs = <<>>) =>
          /\ Len(logger.outputs) = 1
          /\ \A level \in AnyLevel :
                /\ Target(logger.outputs[1], level) = Target(ConsoleOutput, level)
                /\ Calls(logger.outputs[1], <<1>>, level) = <<>>
          /\ Len(ConsoleCalls) = Cardinality(OutputEventsAll)

C12_Witness ==
    /\ options = ("Level" :> Debug)
    /\ Len(calls) = 2 /\ \A k \in DOMAIN calls : calls[k].status = "returned"
    /\ calls[1].level = Error /\ calls[2].level = Warning
    /\ Len(streams["stderr"]) = 1 /\ Len(streams["stdout"]) = 1
    /\ Contains(streams["stderr"][1], <<"[", "ERROR", "]", " ", "x", "\n">>)
    /\ Contains(streams["stdout"][1], <<"[", "WARNING", "]", " ", "x", "\n">>)

\* The lines the file sinks were called with, in call order.
RECURSIVE FileLines(_)
FileLines(n) ==
    IF n = 0 THEN <<>>
    ELSE FileLines(n - 1) \o fileCalls[n].message \o <<"\n">>

\* C13: FileOutput returns a sink and a nil error, or a nil sink and an
\* error - the error exactly when the file cannot be opened or created; each
\* successful FileOutput opens the file once, for appending, and the calls of
\* the sinks open nothing; and after any calls of the sinks the file holds
\* what it held before, then the messages in call order, one per line.
C13_FileOutputAppendsOrFails ==
    /\ \A i \in DOMAIN fileOutputs :
          LET r == fileOutputs[i]
          IN  /\ (r.sink = NilFunc) # (r.err = NilError)
              /\ (r.err # NilError) = fs.denied
              /\ r.err # NilError =>
                    SubSeq(r.err, 1, 3) = <<"failed to open log file ", "./app.log", ": ">>
    /\ Len(fs.open) =
          Cardinality({i \in DOMAIN fileOutputs : fileOutputs[i].sink # NilFunc})
    /\ \A f \in DOMAIN fs.open : fs.open[f].append
    /\ fs.data = fs.previous \o FileLines(Len(fileCalls))
    /\ (fs.exists \/ fs.data = <<>>)

C13_Witness ==
    /\ fs.previous = OldLine
    /\ Len(fileOutputs) = 2
    /\ Len(fileCalls) = 2
    /\ fileCalls[1].sink = 1 /\ fileCalls[2].sink = 2
    /\ fs.data = <<"old", "\n", "y", "\n", "x", "\n">>

\* C14: Log does not validate its level. Whatever the threshold, a call at a
\* level below Emergency passes the level check, is formatted once with the
\* level name UNKNOWN and handed to every output of the logger, the console
\* output writing it to standard error; a call at a level above Debug calls
\* no formatter and no output, and returns.
C14_LevelOutsideRangeIsNotValidated ==
    /\ InRange(logger.level)
    /\ \A k \in DOMAIN calls :
          /\ calls[k].level < Emergency =>
                /\ CallEvents(k) # <<>> =>
                      /\ Dispatched(k, Len(logger.outputs))
                      /\ Contains(CallEvents(k)[1].message,
                                  <<"[", "UNKNOWN", "]", " ">> \o calls[k].message)
                /\ Done(k) =>
                      /\ calls[k].status = "returned"
                      /\ CallEvents(k) # <<>>
                      /\ KindAt(<<1>>) \in {"console", "defaultConsole"} =>
                            \E i \in DOMAIN streams["stderr"] :
                                streams["stderr"][i] =
                                    CallEvents(k)[1].message \o <<"\n">>
          /\ calls[k].level > Debug =>
                /\ CallEvents(k) = <<>>
                /\ calls[k].status = "returned"
    /\ \A i \in DOMAIN streams["stdout"] :
          ~Contains(streams["stdout"][i], <<"UNKNOWN">>)
    /\ (\A k \in DOMAIN calls : calls[k].level > Debug) =>
          \A w \in Writers : streams[w] = <<>>

C14_Witness ==
    /\ logger.level = Emergency
    /\ logger.outputs = <<ConsoleOutput>>
    /\ Len(calls) = 2
    /\ calls[1].level = Emergency - 1 /\ calls[1].status = "returned"
    /\ calls[2].level = Debug + 1 /\ calls[2].status = "returned"
    /\ Len(streams["stderr"]) = 1 /\ streams["stdout"] = <<>>
    /\ Contains(streams["stderr"][1], <<"[", "UNKNOWN", "]", " ", "x", "\n">>)

====
